---- MODULE Spec2Model ----
(***************************************************************************)
(* State-aware optimistic planning (rl_agents/agents/tree_search/          *)
(* state_aware.py): a best-first search tree whose nodes are aggregated by *)
(* the string key of their observation.  The planner keeps                 *)
(*   state_nodes : key -> list of tree nodes that reach the key            *)
(*   state_values: key -> upper bound of the value-to-go of the key        *)
(*   leaves      : list of nodes eligible for expansion                    *)
(*                                                                         *)
(* Numbers.  The discount factor of the model is gamma = 1/2, so that      *)
(* 1/(1-gamma) = 2.  A value x of the program is the integer x * Unit,     *)
(* Unit = 2^Prec; a product is rounded half-to-even to that grid, as the   *)
(* float arithmetic of the program rounds to its own grid.  RecLimit is    *)
(* the interpreter's bound on nested calls; RecLimit < Prec as, for        *)
(* doubles and CPython, 1000 < 1075 (the halvings a double survives).      *)
(***************************************************************************)
EXTENDS Integers, Sequences, FiniteSets, TLC

VARIABLES cfg, env, nodes, root, leaves, state_nodes, state_values,
          budget, plans, err, log, ulog, updated_nodes, ret, uvres

vars == <<cfg, env, nodes, root, leaves, state_nodes, state_values,
          budget, plans, err, log, ulog, updated_nodes, ret, uvres>>

\* ------------------------------------------------------------------ bounds
Prec == 12          \* fractional bits of a value
RecLimit == 5       \* nested backup_to_root calls the interpreter allows
MaxNodes == 15      \* tree nodes ever created by one planner instance
MaxPlans == 2       \* plan() calls on one planner instance
Budget == 3         \* run() iterations of one plan() call
Horizon == 4        \* length of the action sequences whose return is compared

Unit == 2 ^ Prec
Half == Unit \div 2

Keys == {"A", "B", "C"}
NoneKey == "None"

\* ------------------------------------------------------------- arithmetic
\* x / 2^d rounded half-to-even
DivPow2(x, d) ==
    LET m == 2 ^ d
        q == x \div m
        r == x % m
    IN  IF d = 0 THEN x
        ELSE IF 2 * r > m \/ (2 * r = m /\ q % 2 = 1) THEN q + 1 ELSE q

\* a discount applied twice
MulGammaTwice(x) == DivPow2(x, 2)

\* gamma * x
MulGamma(x) == DivPow2(x, 1)

\* (gamma ** d) * x
MulGammaPow(d, x) == DivPow2(x, d)

\* 1 / (1 - gamma)
MaxValue == 2 * Unit

\* --------------------------------------------------------- configurations
Cfgs ==
    [backup_aggregated_nodes : BOOLEAN,
     prune_suboptimal_leaves : BOOLEAN,
     stopping_accuracy : {0, Half}]

DefaultCfg ==
    [backup_aggregated_nodes |-> TRUE,
     prune_suboptimal_leaves |-> TRUE,
     stopping_accuracy |-> 0]

\* ----------------------------------------------------------- environments
\* A deterministic environment: T[s][a] the successor, R[s][a] the reward of
\* action a in state s, term the terminal states.  Len(T[s]) is the number of
\* actions available in s.
EnvChain ==
    [T |-> [A |-> <<"B", "B">>, B |-> <<"C", "C">>, C |-> <<>>],
     R |-> [A |-> <<Unit, Half>>, B |-> <<0, 0>>, C |-> <<>>],
     term |-> {"C"}]

EnvLoop ==
    [T |-> [A |-> <<"A", "B">>, B |-> <<"B", "A">>, C |-> <<"C">>],
     R |-> [A |-> <<0, Half>>, B |-> <<Unit, 0>>, C |-> <<0>>],
     term |-> {}]

EnvCycle ==
    [T |-> [A |-> <<"B", "C">>, B |-> <<"A", "C">>, C |-> <<"C", "A">>],
     R |-> [A |-> <<Unit, Half>>, B |-> <<0, Unit>>, C |-> <<0, 0>>],
     term |-> {"C"}]

EnvDiamond ==
    [T |-> [A |-> <<"B", "C">>, B |-> <<"C", "C">>, C |-> <<"A", "B">>],
     R |-> [A |-> <<Half, Half>>, B |-> <<Half, 0>>, C |-> <<Unit, Half>>],
     term |-> {}]

\* the environment keeps paying after its terminal state C
EnvTerm ==
    [T |-> [A |-> <<"B", "C">>, B |-> <<"A", "B">>, C |-> <<"C">>],
     R |-> [A |-> <<Half, Unit>>, B |-> <<Unit, Half>>, C |-> <<Unit>>],
     term |-> {"C"}]

\* three actions, two of them equally good
EnvWide ==
    [T |-> [A |-> <<"B", "B", "A">>, B |-> <<"A">>, C |-> <<>>],
     R |-> [A |-> <<Unit, Unit, Half>>, B |-> <<Half>>, C |-> <<>>],
     term |-> {}]

Envs == {EnvChain, EnvLoop, EnvCycle, EnvDiamond, EnvTerm, EnvWide}

\* ------------------------------------------------------------------ nodes
NewNode(parent, depth) ==
    [parent |-> parent, obs |-> NoneKey, reward |-> 0, value |-> 0,
     depth |-> depth, done |-> FALSE, children |-> <<>>]

EmptyMap == [k \in {} |-> 0]

Put(f, k, v) == [x \in DOMAIN f \cup {k} |-> IF x = k THEN v ELSE f[x]]

InSeq(x, s) == \E i \in 1..Len(s) : s[i] = x

\* list.remove(x): drops the first occurrence
RemoveFirst(s, x) ==
    LET i == CHOOSE j \in 1..Len(s) : s[j] = x /\ \A k \in 1..(j-1) : s[k] # x
    IN  SubSeq(s, 1, i - 1) \o SubSeq(s, i + 1, Len(s))

SetMax(S) == CHOOSE m \in S : \A x \in S : x <= m

\* ------------------------------------------------- StateAwarePlanner parts
Get(f, k, default) == IF k \in DOMAIN f THEN f[k] ELSE default

\* update_value(observation, value): the new state_values and the pair
\* (updated, delta) it returns
UpdateValue(sv, k, v) ==
    IF k \notin DOMAIN sv \/ v < sv[k]
    THEN [sv |-> Put(sv, k, v), updated |-> TRUE,
          delta |-> Get(sv, k, MaxValue) - v]
    ELSE [sv |-> sv, updated |-> FALSE, delta |-> 0]

\* an upper bound that leaves out the value accumulated on the way to the node
FutureUpperBound(nd, sv, n) == MulGammaPow(nd[n].depth, sv[nd[n].obs])

\* get_value_upper_bound(): indexes state_values directly, the key must exist
GetValueUpperBound(nd, sv, n) ==
    nd[n].value + MulGammaPow(nd[n].depth, sv[nd[n].obs])

\* an argmax that yields the last maximal element
MaxByUpperBoundLast(nd, sv, seq) ==
    LET m == SetMax({GetValueUpperBound(nd, sv, seq[i]) : i \in 1..Len(seq)})
        i == CHOOSE j \in 1..Len(seq) :
                 /\ GetValueUpperBound(nd, sv, seq[j]) = m
                 /\ \A k \in (j+1)..Len(seq) : GetValueUpperBound(nd, sv, seq[k]) # m
    IN  seq[i]

\* max(seq, key=get_value_upper_bound): the first maximal element
MaxByUpperBound(nd, sv, seq) ==
    LET m == SetMax({GetValueUpperBound(nd, sv, seq[i]) : i \in 1..Len(seq)})
        i == CHOOSE j \in 1..Len(seq) :
                 /\ GetValueUpperBound(nd, sv, seq[j]) = m
                 /\ \A k \in 1..(j-1) : GetValueUpperBound(nd, sv, seq[k]) # m
    IN  seq[i]

RECURSIVE RemoveAll(_, _)
\* [leaves.remove(node) for node in victims]
RemoveAll(lv, victims) ==
    IF victims = <<>> THEN lv
    ELSE RemoveAll(RemoveFirst(lv, Head(victims)), Tail(victims))

\* make_root(): a new root node, which becomes the only leaf
MakeRoot(nd) ==
    [nodes |-> Append(nd, NewNode(0, 0)), root |-> Len(nd) + 1,
     leaves |-> <<Len(nd) + 1>>]

\* DeterministicNode.update(reward, done): reward, done flag and the value
\* accumulated from the root
BaseUpdate(nd, c, reward, done) ==
    [nd EXCEPT ![c].reward = reward,
               ![c].done = done,
               ![c].value = nd[nd[c].parent].value
                            + MulGammaPow(nd[c].depth - 1, reward)]

\* a pruning step that only removes the leaves strictly below the best one
PruneKeepTies(nd, lv, sn, sv, k) ==
    LET IsStateLeaf(n) == nd[n].children = <<>> /\ InSeq(n, lv)
        state_leaves == SelectSeq(sn[k], IsStateLeaf)
        best == MaxByUpperBound(nd, sv, state_leaves)
        Below(n) == GetValueUpperBound(nd, sv, n) < GetValueUpperBound(nd, sv, best)
    IN  RemoveAll(lv, SelectSeq(state_leaves, Below))

\* a pruning step that removes every childless leaf of the key
PruneAll(nd, lv, sn, sv, k) ==
    LET IsStateLeaf(n) == nd[n].children = <<>> /\ InSeq(n, lv)
    IN  RemoveAll(lv, SelectSeq(sn[k], IsStateLeaf))

\* the leaves that survive the pruning step of update() for key k
Prune(nd, lv, sn, sv, k) ==
    LET IsStateLeaf(n) == nd[n].children = <<>> /\ InSeq(n, lv)
        state_leaves == SelectSeq(sn[k], IsStateLeaf)
        best == MaxByUpperBound(nd, sv, state_leaves)
        NotBest(n) == n # best
    IN  RemoveAll(lv, SelectSeq(state_leaves, NotBest))

\* a registration that starts the list of the key afresh
RegisterAlone(sn, k, c) == Put(sn, k, <<c>>)

\* "Add to list of nodes with this observation"
Register(sn, k, c) ==
    LET sn1 == IF k \notin DOMAIN sn THEN Put(sn, k, <<>>) ELSE sn
    IN  [sn1 EXCEPT ![k] = Append(sn1[k], c)]

\* a default value that ignores the done flag
FutureValueUcbNotDone(done) == MaxValue

\* "Default value" of the future of a node
FutureValueUcb(done) == IF ~done THEN MaxValue ELSE 0

\* a pruning that also takes the removed leaves out of the registry
PruneStepUnregister(p, k) ==
    IF cfg.prune_suboptimal_leaves
    THEN LET lv == Prune(p.nodes, p.leaves, p.sn, p.sv, k)
             Kept(n) == InSeq(n, lv) \/ ~InSeq(n, p.leaves)
         IN  [p EXCEPT !.leaves = lv, !.sn[k] = SelectSeq(p.sn[k], Kept)]
    ELSE p

\* "Among sequences that lead to this state, remove all suboptimal leaves",
\* on planner state p = [nodes, leaves, sn, sv, ulog]
PruneStep(p, k) ==
    IF cfg.prune_suboptimal_leaves
    THEN [p EXCEPT !.leaves = Prune(p.nodes, p.leaves, p.sn, p.sv, k)]
    ELSE p

\* one record of the update log per update() call: the key and done flag of
\* the node, whether the key was seen, its bound before the call and after
\* the update_value step, the registered childless leaves of the key before
\* the pruning step, the nodes that step removed, state_values before that
\* step and at the end
UpdateRec(p, q, r, c, done, k) ==
    LET IsStateLeaf(n) == q.nodes[n].children = <<>> /\ InSeq(n, q.leaves)
        Removed(n) == ~InSeq(n, r.leaves)
    IN  [node |-> c, key |-> k, done |-> done,
         seen |-> k \in DOMAIN p.sv,
         before |-> Get(p.sv, k, MaxValue),
         after |-> q.sv[k],
         state_leaves |-> SelectSeq(q.sn[k], IsStateLeaf),
         removed |-> SelectSeq(q.leaves, Removed),
         sv_updated |-> q.sv,
         sv |-> r.sv]

\* StateAwareNode.update(reward, done, observation) on node c of planner
\* state p = [nodes, leaves, sn, sv, ulog]
Update(p, c, reward, done, k) ==
    LET nd1 == BaseUpdate(p.nodes, c, reward, done)
        q == [p EXCEPT !.nodes = [nd1 EXCEPT ![c].obs = k],
                       !.sn = Register(p.sn, k, c),
                       !.sv = UpdateValue(p.sv, k, FutureValueUcb(done)).sv]
        r == PruneStep(q, k)
    IN  [r EXCEPT !.ulog = Append(p.ulog, UpdateRec(p, q, r, c, done, k))]

RECURSIVE ExpandLoop(_, _, _)
\* the loop of expand() over the actions a, a+1, ... of node n: create the
\* child, step the environment, append the child to the leaves, update it
ExpandLoop(p, n, a) ==
    LET s == p.nodes[n].obs
        c == Len(p.nodes) + 1
        k == env.T[s][a]
        nd1 == Append(p.nodes, NewNode(n, p.nodes[n].depth + 1))
        nd2 == [nd1 EXCEPT ![n].children = Append(nd1[n].children, c)]
        p1 == [p EXCEPT !.nodes = nd2, !.leaves = Append(p.leaves, c)]
    IN  IF a > Len(env.T[s]) THEN p
        ELSE ExpandLoop(Update(p1, c, env.R[s][a], k \in env.term, k), n, a + 1)

\* expand(): the node leaves the frontier and gets one child per action
Expand(p, n) ==
    ExpandLoop([p EXCEPT !.leaves = RemoveFirst(p.leaves, n)], n, 1)

\* one record of the call log per backup_to_root() call, in call order
\* (after: the bound of the node's key once its update_value call is done;
\* sv: state_values at that moment, for a node with children)
CallRec(n, caller, kind, depth, cand, uv, after) ==
    [node |-> n, caller |-> caller, kind |-> kind, depth |-> depth,
     cand |-> cand, updated |-> uv.updated, delta |-> uv.delta,
     after |-> after, sv |-> IF cand = -1 THEN EmptyMap ELSE uv.sv,
     ret |-> -1]

NoUpdate == [updated |-> FALSE, delta |-> 0]

\* a backup that goes on after every update, whatever its size
ShouldBackupAnyDelta(uv) == uv.updated

\* "Should we backup this update?"
ShouldBackup(uv) == uv.updated /\ uv.delta > cfg.stopping_accuracy

\* an aggregated loop that does not skip the node itself
AnyWithParent(nd, node, n) == nd[node].parent # 0

\* the aggregated nodes whose parent is backed up
OtherWithParent(nd, node, n) == node # n /\ nd[node].parent # 0

RECURSIVE BackupToRoot(_, _, _, _, _, _, _)
RECURSIVE AggregatedLoop(_, _, _, _, _, _, _)

\* a count that leaves out a node whose bound did not improve
NodeCountIfUpdated(uv) == IF uv.updated THEN 1 ELSE 0

\* updated_nodes = 1 of a node with children, whatever update_value returned
NodeCount(uv) == 1

\* backup_to_root() on node n.  nd, sn: tree and state_nodes (not changed by
\* a backup); st = [sv, log, err, ret]: state_values, call log, error raised,
\* value returned; depth: nesting of the call; caller: log index of the caller
BackupToRoot(nd, sn, n, st, depth, caller, kind) ==
    IF depth > RecLimit THEN [st EXCEPT !.err = "RecursionError"]
    ELSE IF nd[n].children = <<>>
    THEN [st EXCEPT !.log = Append(st.log, [CallRec(n, caller, kind, depth, -1, NoUpdate,
                                                     Get(st.sv, nd[n].obs, -1))
                                             EXCEPT !.ret = 0]),
                    !.ret = 0]
    ELSE
      LET me == Len(st.log) + 1
          best_child == MaxByUpperBound(nd, st.sv, nd[n].children)
          backup == nd[best_child].reward + MulGamma(st.sv[nd[best_child].obs])
          uv == UpdateValue(st.sv, nd[n].obs, backup)
          st1 == [st EXCEPT !.sv = uv.sv,
                            !.log = Append(st.log, CallRec(n, caller, kind, depth, backup, uv,
                                                          uv.sv[nd[n].obs])),
                            !.ret = NodeCount(uv)]
          st2 == IF nd[n].parent # 0
                 THEN LET r == BackupToRoot(nd, sn, nd[n].parent, st1, depth + 1, me, "parent")
                      IN  [r EXCEPT !.ret = st1.ret + r.ret]
                 ELSE st1
          st3 == IF st2.err = "none" /\ cfg.backup_aggregated_nodes
                 THEN AggregatedLoop(nd, sn, n, 1, st2, depth, me)
                 ELSE st2
          out == IF ShouldBackup(uv) THEN st3 ELSE st1
      IN  IF out.err = "none"
          THEN [out EXCEPT !.log[me].ret = out.ret]
          ELSE out

\* for node in state_nodes[str(self.observation)], from position i on;
\* st.ret accumulates updated_nodes of the calling backup
AggregatedLoop(nd, sn, n, i, st, depth, me) ==
    LET lst == sn[nd[n].obs]
        node == lst[i]
        r == BackupToRoot(nd, sn, nd[node].parent, st, depth + 1, me, "aggregated")
        st1 == IF OtherWithParent(nd, node, n)
               THEN [r EXCEPT !.ret = st.ret + r.ret]
               ELSE st
    IN  IF i > Len(lst) \/ st.err # "none" THEN st
        ELSE AggregatedLoop(nd, sn, n, i + 1, st1, depth, me)

\* ---------------------------------------------------------------- actions
Init ==
    /\ cfg \in Cfgs
    /\ env \in Envs
    /\ nodes = MakeRoot(<<>>).nodes
    /\ root = MakeRoot(<<>>).root
    /\ leaves = MakeRoot(<<>>).leaves
    /\ state_nodes = EmptyMap
    /\ state_values = EmptyMap
    /\ budget = 0
    /\ plans = 0
    /\ err = "none"
    /\ log = <<>>
    /\ ulog = <<>>
    /\ updated_nodes = -1
    /\ ret = <<>>
    /\ uvres = <<>>

\* a plan() that leaves the bound of the root's key as it finds it
SeedRootNothing(sv, observation) == sv

\* state_values[str(observation)] = 1/(1 - gamma) for the root
SeedRoot(sv, observation) == Put(sv, observation, MaxValue)

\* plan(state, observation): the planner is reset (a new root through
\* make_root), the root is seeded, and the run() loop is started
Plan(observation) ==
    /\ budget = 0
    /\ plans < MaxPlans
    /\ Len(nodes) < MaxNodes
    /\ LET r == MakeRoot(nodes)
       IN  /\ nodes' = [r.nodes EXCEPT ![r.root].obs = observation]
           /\ root' = r.root
           /\ leaves' = r.leaves
           /\ state_nodes' = Put(state_nodes, observation, <<r.root>>)
           /\ state_values' = SeedRoot(state_values, observation)
    /\ budget' = Budget
    /\ plans' = plans + 1
    /\ err' = "none"
    /\ log' = <<>>
    /\ ulog' = <<>>
    /\ updated_nodes' = -1
    /\ ret' = <<>>
    /\ UNCHANGED <<cfg, env, uvres>>

\* a run() that skips the iteration when the frontier is empty
RunEmptySilent ==
    /\ budget > 0
    /\ leaves = <<>>
    /\ budget' = budget - 1
    /\ ret' = <<>>
    /\ UNCHANGED <<cfg, env, nodes, root, leaves, state_nodes, state_values,
                   plans, err, log, ulog, updated_nodes, uvres>>

\* run() with an empty frontier: max() of an empty list raises ValueError
RunEmpty ==
    /\ budget > 0
    /\ leaves = <<>>
    /\ err' = "ValueError"
    /\ budget' = 0
    /\ ret' = <<>>
    /\ UNCHANGED <<cfg, env, nodes, root, leaves, state_nodes, state_values,
                   plans, log, ulog, updated_nodes, uvres>>

\* run(): select the best leaf, expand it, back it up; ulog holds the
\* update() calls since plan(), log the backup_to_root() calls of this run()
Run ==
    /\ budget > 0
    /\ leaves # <<>>
    /\ LET leaf_to_expand == MaxByUpperBound(nodes, state_values, leaves)
           k == nodes[leaf_to_expand].obs
       IN  /\ Len(nodes) + Len(env.T[k]) <= MaxNodes
           /\ \E p \in {Expand([nodes |-> nodes, leaves |-> leaves,
                               sn |-> state_nodes, sv |-> state_values,
                               ulog |-> ulog],
                              leaf_to_expand)} :
              \E b \in {BackupToRoot(p.nodes, p.sn, leaf_to_expand,
                                    [sv |-> p.sv, log |-> <<>>, err |-> "none", ret |-> 0],
                                    1, 0, "run")} :
                  /\ nodes' = p.nodes
                  /\ leaves' = p.leaves
                  /\ state_nodes' = p.sn
                  /\ state_values' = b.sv
                  /\ log' = b.log
                  /\ ulog' = p.ulog
                  /\ err' = b.err
                  /\ updated_nodes' = IF b.err = "none" THEN b.ret ELSE -1
                  /\ budget' = IF b.err = "none" THEN budget - 1 ELSE 0
    /\ ret' = <<>>
    /\ UNCHANGED <<cfg, env, root, plans, uvres>>

\* a caller reads get_value_upper_bound() of a node; ret records the call and
\* what it returned or raised, until the next plan() or run()
ReadUpperBound(n) ==
    /\ n \in 1..Len(nodes)
    /\ ret' = IF nodes[n].obs \in DOMAIN state_values
              THEN <<[node |-> n, raised |-> "none",
                      value |-> GetValueUpperBound(nodes, state_values, n)]>>
              ELSE <<[node |-> n, raised |-> "KeyError", value |-> -1]>>
    /\ UNCHANGED <<cfg, env, nodes, root, leaves, state_nodes, state_values,
                   budget, plans, err, log, ulog, updated_nodes, uvres>>

Next ==
    \/ \E o \in Keys : Plan(o)
    \/ Run
    \/ RunEmpty
    \/ \E n \in 1..MaxNodes : ReadUpperBound(n)

Spec == Init /\ [][Next]_vars

TypeOK ==
    /\ cfg \in Cfgs
    /\ budget \in 0..Budget
    /\ Len(nodes) <= MaxNodes
    /\ \A k \in DOMAIN state_values : state_values[k] \in 0..MaxValue

\* ------------------------------------------ update_value called on its own
UVValues == {0, Half, Unit, MaxValue}
UVCandidates == {0, Half, Unit, MaxValue, MaxValue + Unit}

InitUV ==
    /\ cfg = DefaultCfg
    /\ env = EnvChain
    /\ nodes = MakeRoot(<<>>).nodes
    /\ root = MakeRoot(<<>>).root
    /\ leaves = MakeRoot(<<>>).leaves
    /\ state_nodes = EmptyMap
    /\ state_values \in UNION {[D -> UVValues] : D \in SUBSET Keys}
    /\ budget = 0
    /\ plans = 0
    /\ err = "none"
    /\ log = <<>>
    /\ ulog = <<>>
    /\ updated_nodes = -1
    /\ ret = <<>>
    /\ uvres = <<>>

\* planner.update_value(k, v); uvres records the call and what it returned
UpdateValueCall(k, v) ==
    /\ LET uv == UpdateValue(state_values, k, v)
       IN  /\ state_values' = uv.sv
           /\ uvres' = <<[key |-> k, value |-> v,
                          seen |-> k \in DOMAIN state_values,
                          old |-> Get(state_values, k, MaxValue),
                          updated |-> uv.updated, delta |-> uv.delta]>>
    /\ UNCHANGED <<cfg, env, nodes, root, leaves, state_nodes,
                   budget, plans, err, log, ulog, updated_nodes, ret>>

NextUV == \E k \in Keys, v \in UVCandidates : UpdateValueCall(k, v)

SpecUV == InitUV /\ [][NextUV]_vars

\* ================================================================ claims
\* the bound of key k: state_values[k], read as 1/(1-gamma) while k is unseen
Bound(sv, k) == Get(sv, k, MaxValue)

AllKeys == Keys \cup {NoneKey}

\* C1 -- Monotonicity: the bound of every state key never increases across a
\* step of the planner (plan, run, update, backup_to_root, update_value).
Monotonicity ==
    [][\A k \in AllKeys : Bound(state_values', k) <= Bound(state_values, k)]_vars

\* C2 -- Tighten correctness: update_value(s, v) returns (True, old - v) and
\* sets the bound to v when v < old, and returns (False, 0) and leaves the
\* bound unchanged when v >= old, old being the bound of s (1/(1-gamma) for
\* an unseen s).
TightenCorrectness ==
    \A i \in 1..Len(uvres) :
        IF uvres[i].value < uvres[i].old
        THEN /\ uvres[i].updated
             /\ uvres[i].delta = uvres[i].old - uvres[i].value
             /\ Bound(state_values, uvres[i].key) = uvres[i].value
        ELSE /\ ~uvres[i].updated
             /\ uvres[i].delta = 0
             /\ Bound(state_values, uvres[i].key) = uvres[i].old

\* C3 -- Pruning invariant: with prune_suboptimal_leaves enabled, every state
\* key has at most one registered node that is childless and in the leaves.
StateLeaves(k) ==
    {i \in 1..Len(state_nodes[k]) :
        /\ nodes[state_nodes[k][i]].children = <<>>
        /\ InSeq(state_nodes[k][i], leaves)}

PruningInvariant ==
    cfg.prune_suboptimal_leaves =>
        \A k \in DOMAIN state_nodes : Cardinality(StateLeaves(k)) <= 1

\* a key reached by two children of the tree of the first plan() call, one
\* still in the leaves and one pruned from them
PruningWitness ==
    /\ cfg.prune_suboptimal_leaves
    /\ plans = 1
    /\ \E k \in DOMAIN state_nodes : \E i, j \in 1..Len(state_nodes[k]) :
          LET a == state_nodes[k][i]
              b == state_nodes[k][j]
          IN  /\ a # b
              /\ nodes[a].children = <<>> /\ nodes[b].children = <<>>
              /\ nodes[a].parent # 0 /\ nodes[b].parent # 0
              /\ InSeq(a, leaves) /\ ~InSeq(b, leaves)

\* C4 -- Backup termination: every backup_to_root() call makes finitely many
\* recursive calls and returns (it does not exhaust the call stack).
BackupTermination == err # "RecursionError"

RECURSIVE ScaledReturn(_, _)
\* 2^h times the best discounted return of an action sequence of length h
\* from state k, nothing being collected after a terminal state
ScaledReturn(k, h) ==
    IF h = 0 \/ k \in env.term \/ env.T[k] = <<>> THEN 0
    ELSE SetMax({(2 ^ h) * env.R[k][a] + ScaledReturn(env.T[k][a], h - 1) :
                    a \in 1..Len(env.T[k])})

FreshRegistry ==
    budget = Budget =>
        /\ DOMAIN state_nodes = {nodes[root].obs}
        /\ state_nodes[nodes[root].obs] = <<root>>
        /\ DOMAIN state_values = {nodes[root].obs}
        /\ state_values[nodes[root].obs] = MaxValue

\* the calls made by call i of the log, in call order
RECURSIVE CalleesFrom(_, _)
CalleesFrom(i, j) ==
    IF j > Len(log) THEN <<>>
    ELSE IF log[j].caller = i THEN <<log[j].node>> \o CalleesFrom(i, j + 1)
    ELSE CalleesFrom(i, j + 1)

Callees(i) == CalleesFrom(i, 1)

\* call i of the log was made on a node with children
WithChildren(i) == log[i].cand # -1

\* C7 -- stopping_accuracy gating: a backup_to_root() on a node with children
\* that tightens by a delta <= stopping_accuracy replaces the bound by the
\* candidate, makes no recursive call and returns 1.
StoppingAccuracyGating ==
    \A i \in 1..Len(log) :
        (WithChildren(i) /\ log[i].updated /\ log[i].delta <= cfg.stopping_accuracy) =>
            /\ log[i].after = log[i].cand
            /\ Callees(i) = <<>>
            /\ log[i].ret = 1

\* a tightening within the accuracy, on a node that has a parent or a
\* registered peer with a parent
GatingWitness ==
    \E i \in 1..Len(log) :
        /\ WithChildren(i) /\ log[i].updated
        /\ 0 < log[i].delta /\ log[i].delta <= cfg.stopping_accuracy
        /\ \/ nodes[log[i].node].parent # 0
           \/ \E x \in 1..Len(nodes) :
                 /\ x # log[i].node /\ nodes[x].parent # 0
                 /\ InSeq(x, state_nodes[nodes[log[i].node].obs])

\* the parents that backup_to_root() on n is to back up: its own, then those
\* of the other nodes registered under its key, in registration order
RECURSIVE ParentsOfOthers(_, _)
ParentsOfOthers(n, lst) ==
    IF lst = <<>> THEN <<>>
    ELSE IF Head(lst) # n /\ nodes[Head(lst)].parent # 0
         THEN <<nodes[Head(lst)].parent>> \o ParentsOfOthers(n, Tail(lst))
         ELSE ParentsOfOthers(n, Tail(lst))

OwnParent(n) == IF nodes[n].parent # 0 THEN <<nodes[n].parent>> ELSE <<>>

RECURSIVE IsAncestorOrSelf(_, _)
IsAncestorOrSelf(a, n) ==
    IF a = n THEN TRUE
    ELSE IF nodes[n].parent = 0 THEN FALSE
    ELSE IsAncestorOrSelf(a, nodes[n].parent)

\* C8 -- Aggregated backup propagation: a backup_to_root() on n that tightens
\* by more than stopping_accuracy backs up n's parent first and then, iff
\* backup_aggregated_nodes, the parent of every other node registered under
\* n's key, in registration order; without backup_aggregated_nodes only n and
\* ancestors of n are backed up.
AggregatedPropagation ==
    /\ \A i \in 1..Len(log) :
          (/\ WithChildren(i) /\ log[i].ret # -1
           /\ log[i].updated /\ log[i].delta > cfg.stopping_accuracy) =>
              Callees(i) = OwnParent(log[i].node)
                           \o (IF cfg.backup_aggregated_nodes
                               THEN ParentsOfOthers(log[i].node,
                                        state_nodes[nodes[log[i].node].obs])
                               ELSE <<>>)
    /\ ~cfg.backup_aggregated_nodes =>
          \A i \in 1..Len(log) : IsAncestorOrSelf(log[i].node, log[1].node)

\* a returned backup that went to its own parent and to an aggregated one
PropagationWitness ==
    /\ cfg.backup_aggregated_nodes
    /\ \E i \in 1..Len(log) :
          /\ WithChildren(i) /\ log[i].ret # -1
          /\ log[i].updated /\ log[i].delta > cfg.stopping_accuracy
          /\ nodes[log[i].node].parent # 0
          /\ ParentsOfOthers(log[i].node, state_nodes[nodes[log[i].node].obs]) # <<>>
          /\ Len(Callees(i)) >= 2

\* C9 -- Empty frontier is a surfaced error: a run() that finds the leaves
\* empty fails with an error and changes neither tree, frontier nor registry.
EmptyFrontierError ==
    [][(budget > 0 /\ leaves = <<>> /\ budget' # budget) =>
          /\ err' = "ValueError"
          /\ UNCHANGED <<nodes, root, leaves, state_nodes, state_values>>]_vars

\* run() has been called on an empty frontier
EmptyFrontierWitness == err = "ValueError" /\ leaves = <<>>

\* C10 -- Unseen-state lookup is not an error: get_value_upper_bound() of a
\* node whose key was never registered yields the value computed from the
\* default bound 1/(1-gamma).
UnseenLookupDefault ==
    \A i \in 1..Len(ret) :
        nodes[ret[i].node].obs \notin DOMAIN state_values =>
            /\ ret[i].raised = "none"
            /\ ret[i].value = nodes[ret[i].node].value
                              + MulGammaPow(nodes[ret[i].node].depth, MaxValue)

\* C11 -- Bound formula: a read of get_value_upper_bound() on any node with
\* accumulated value a, depth d and key s yields a + gamma^d * (current bound
\* of s), and the read changes neither the registry nor the frontier.
BoundFormula ==
    /\ [](\A i \in 1..Len(ret) :
             /\ ret[i].raised = "none"
             /\ ret[i].value = nodes[ret[i].node].value
                   + DivPow2(Bound(state_values, nodes[ret[i].node].obs),
                             nodes[ret[i].node].depth))
    /\ [][(ret' # <<>> /\ ret' # ret) =>
             UNCHANGED <<nodes, leaves, state_nodes, state_values>>]_vars

\* the places <<key, index>> of the registry that hold node n
Places(n) ==
    {x \in UNION {{<<k, i>> : i \in 1..Len(state_nodes[k])} :
                     k \in DOMAIN state_nodes} :
        state_nodes[x[1]][x[2]] = n}

\* node n belongs to the tree of the current root
InTree(n) == IsAncestorOrSelf(root, n)

\* C12 -- Registry membership: in every reachable planner state every node
\* held by the registry is held once, in one entry, under the node's own key,
\* and once plan() has seeded the root every node of the tree is held so.
RegistryMembership ==
    /\ \A k \in DOMAIN state_nodes : \A i \in 1..Len(state_nodes[k]) :
           nodes[state_nodes[k][i]].obs = k
    /\ \A n \in 1..Len(nodes) : Cardinality(Places(n)) <= 1
    /\ plans > 0 => \A n \in 1..Len(nodes) :
                        InTree(n) => Cardinality(Places(n)) = 1

\* a second plan() has grown a tree in which some key holds three nodes of
\* the tree
RegistryWitness ==
    /\ plans = 2
    /\ \E k \in DOMAIN state_nodes :
           Cardinality({i \in 1..Len(state_nodes[k]) :
                           InTree(state_nodes[k][i])}) >= 3

\* the nodes that the pruning steps since plan() removed from the leaves
Pruned == UNION {{u.removed[j] : j \in 1..Len(u.removed)} :
                    u \in {ulog[i] : i \in 1..Len(ulog)}}

\* the action of its parent that led to node x
ActionOf(x) ==
    CHOOSE a \in 1..Len(nodes[nodes[x].parent].children) :
        nodes[nodes[x].parent].children[a] = x

\* call i of the log went on to back up the parents
WentOn(i) ==
    WithChildren(i) /\ log[i].updated /\ log[i].delta > cfg.stopping_accuracy

\* C13 -- Pruning only revokes eligibility: a node that pruning removed from
\* the leaves is still a child of its parent, still registered under its
\* key, still has the reward, value, depth and key of its transition; the
\* pruning step leaves state_values as it found them; and a backup that goes
\* on to the aggregated nodes of the pruned node's key still backs up the
\* pruned node's parent.
PruningKeepsNode ==
    /\ \A i \in 1..Len(ulog) : ulog[i].sv = ulog[i].sv_updated
    /\ \A x \in Pruned :
           LET pa == nodes[x].parent
               s == nodes[pa].obs
           IN  /\ pa # 0
               /\ InSeq(x, nodes[pa].children)
               /\ InSeq(x, state_nodes[nodes[x].obs])
               /\ nodes[x].obs = env.T[s][ActionOf(x)]
               /\ nodes[x].reward = env.R[s][ActionOf(x)]
               /\ nodes[x].depth = nodes[pa].depth + 1
               /\ nodes[x].value = nodes[pa].value
                      + DivPow2(nodes[x].reward, nodes[pa].depth)
               /\ \A i \in 1..Len(log) :
                      (/\ WentOn(i) /\ log[i].ret # -1
                       /\ cfg.backup_aggregated_nodes
                       /\ x # log[i].node
                       /\ nodes[x].obs = nodes[log[i].node].obs)
                      => InSeq(pa, Callees(i))

\* a completed backup went on from a node with a pruned peer under its key
PruningKeepsWitness ==
    \E x \in Pruned : \E i \in 1..Len(log) :
        /\ WentOn(i) /\ log[i].ret # -1
        /\ cfg.backup_aggregated_nodes
        /\ x # log[i].node
        /\ nodes[x].obs = nodes[log[i].node].obs
        /\ InSeq(nodes[x].parent, Callees(i))

\* C14 -- Default estimate on registration: the update_value call of
\* update() changes the bound of a key only the first time the key is seen;
\* for a later node of a seen key, done or not, the bound stays as it was.
DefaultOnlyFirstSeen ==
    \A i \in 1..Len(ulog) : ulog[i].seen => ulog[i].after = ulog[i].before

\* C14, amended -- the update_value call of update() stores the default of
\* the node (0 if done, else 1/(1-gamma)) for a key not seen before; for a
\* seen key it leaves the bound as it was unless the node is done and the
\* bound is positive, and then the bound becomes 0.
DefaultEstimateEffect ==
    \A i \in 1..Len(ulog) :
        LET u == ulog[i]
        IN  /\ ~u.seen => u.after = (IF u.done THEN 0 ELSE MaxValue)
            /\ u.seen => u.after = (IF u.done /\ u.before > 0 THEN 0
                                    ELSE u.before)

\* update() calls since plan() met a done node of a seen key with a positive
\* bound and a node of a seen key that is not done
DefaultEstimateWitness ==
    /\ \E i \in 1..Len(ulog) :
           ulog[i].seen /\ ulog[i].done /\ ulog[i].before > 0
    /\ \E i \in 1..Len(ulog) :
           ulog[i].seen /\ ~ulog[i].done /\ ulog[i].before < MaxValue

\* get_value_upper_bound() of node n at the pruning step of update call u
BoundAt(u, n) ==
    nodes[n].value + DivPow2(u.sv_updated[nodes[n].obs], nodes[n].depth)

\* the members of a sequence
Range(seq) == {seq[i] : i \in 1..Len(seq)}

\* C15 -- Pruning survivor: of the childless leaves registered under the new
\* node's key, the pruning step of update() keeps one with the maximal
\* get_value_upper_bound(), the earliest registered among equal maxima, and
\* removes every other one; it removes no node of another key.
PruningSurvivor ==
    cfg.prune_suboptimal_leaves =>
        \A i \in 1..Len(ulog) :
            LET u == ulog[i]
                sl == u.state_leaves
                kept == {j \in 1..Len(sl) : sl[j] \notin Range(u.removed)}
            IN  /\ Range(u.removed) \subseteq Range(sl)
                /\ \A x \in Range(u.removed) : nodes[x].obs = u.key
                /\ Cardinality(kept) = 1
                /\ \A j \in kept :
                       /\ \A m \in 1..Len(sl) :
                              BoundAt(u, sl[m]) <= BoundAt(u, sl[j])
                       /\ \A m \in 1..(j-1) :
                              BoundAt(u, sl[m]) < BoundAt(u, sl[j])

\* a pruning step kept the earlier of two leaves with equal maximal value,
\* and another one removed a leaf registered before the one it kept
PruningSurvivorWitness ==
    /\ cfg.prune_suboptimal_leaves
    /\ \E i \in 1..Len(ulog) :
           LET u == ulog[i]
               sl == u.state_leaves
           IN  /\ Len(sl) >= 2
               /\ \E j \in 1..Len(sl) : \E m \in (j+1)..Len(sl) :
                      /\ sl[j] \notin Range(u.removed)
                      /\ sl[m] \in Range(u.removed)
                      /\ BoundAt(u, sl[m]) = BoundAt(u, sl[j])
    /\ \E i \in 1..Len(ulog) :
           LET u == ulog[i]
               sl == u.state_leaves
           IN  \E j \in 1..Len(sl) : \E m \in 1..(j-1) :
                  /\ sl[j] \notin Range(u.removed)
                  /\ sl[m] \in Range(u.removed)

RECURSIVE SumReturned(_, _)
\* the sum of the counts returned by the calls that call i made, from log
\* position j on
SumReturned(i, j) ==
    IF j > Len(log) THEN 0
    ELSE IF log[j].caller = i THEN log[j].ret + SumReturned(i, j + 1)
    ELSE SumReturned(i, j + 1)

\* C16 -- Backup count: backup_to_root() on a childless node returns 0 and
\* changes no bound; on a node with children it returns 1 plus the sum of the
\* counts returned by the recursive calls it makes, whether or not its own
\* update_value call improved the bound; run() stores the count of its call.
BackupCount ==
    /\ [](\A i \in 1..Len(log) : log[i].ret # -1 =>
             log[i].ret = IF WithChildren(i) THEN 1 + SumReturned(i, 1) ELSE 0)
    /\ []((err = "none" /\ log # <<>>) => updated_nodes = log[1].ret)
    /\ [][(budget' # budget /\ log' # <<>> /\ ~WithChildren(1)')
             => state_values' = state_values]_vars

\* a backup returned 3 or more, one of the calls it made having returned 1
\* for a node whose bound did not improve
BackupCountWitness ==
    \E i \in 1..Len(log) : \E j \in 1..Len(log) :
        /\ WithChildren(i) /\ log[i].ret >= 3
        /\ log[j].caller = i /\ WithChildren(j)
        /\ ~log[j].updated /\ log[j].ret = 1

\* state_values as call i of the log found them
BoundsBefore(i) ==
    IF log[i].updated
    THEN [log[i].sv EXCEPT ![nodes[log[i].node].obs] = log[i].after + log[i].delta]
    ELSE log[i].sv

\* reward + gamma * bound of the key, for child c, as call i found the bounds
ChildBackup(i, c) == nodes[c].reward + DivPow2(BoundsBefore(i)[nodes[c].obs], 1)

EveryStateHasAction == \A s \in Keys : env.T[s] # <<>>

\* C18 -- Frontier never empties: in an environment where every state has an
\* action, the leaves hold a node once plan() has seeded the root and after
\* every run(), with pruning on or off.
FrontierNeverEmpties ==
    (EveryStateHasAction /\ plans > 0) => leaves # <<>>

\* the budget of a plan() is spent without error in such an environment, the
\* pruning steps having removed leaves and the last one having left a single
\* leaf
FrontierWitness ==
    /\ EveryStateHasAction /\ plans > 0 /\ budget = 0 /\ err = "none"
    /\ cfg.prune_suboptimal_leaves /\ Pruned # {}
    /\ Len(leaves) = 1

\* C19 -- Registry domain consistency: once plan() has seeded the root, every
\* key with an entry in state_nodes has one in state_values, and the key of
\* every node of the tree or of the leaves has one in state_values, so that
\* the lookups of get_value_upper_bound() and backup_to_root() find the key.
RegistryDomains ==
    plans > 0 =>
        /\ DOMAIN state_nodes \subseteq DOMAIN state_values
        /\ \A n \in 1..Len(nodes) :
               (InTree(n) \/ InSeq(n, leaves)) =>
                   nodes[n].obs \in DOMAIN state_values

\* a second plan() has spent its budget on a tree that holds all three keys,
\* with more than one leaf left
RegistryDomainsWitness ==
    /\ plans = 2 /\ budget = 0 /\ err = "none"
    /\ {nodes[n].obs : n \in {m \in 1..Len(nodes) : InTree(m)}} = Keys
    /\ Len(leaves) >= 2

====
